---- MODULE Spec2Model ----
(***************************************************************************)
(* Model of dataset_check.py: process_all_datasets (the driver) and        *)
(* save_dataset_examples (collect, select, persist).  The program is       *)
(* sequential; pc is the position of the single thread of control.  The    *)
(* external collaborators (os.makedirs, load_dataset, iter/next, the image *)
(* decoder, file writes, login) are modelled by the outcomes the code      *)
(* distinguishes: a normal return or a raised exception.                   *)
(***************************************************************************)
EXTENDS Integers, Sequences, FiniteSets, TLC

(* ------------------------------ bounds --------------------------------- *)
\* longest streaming source a dataset serves
MaxStream == 2
\* largest sample_size / total_samples argument explored (the driver calls
\* with the defaults 10 and 100; the arguments are drawn from 0..Max here)
MaxSampleSize == 2
MaxTotalSamples == 2
\* most fields of a record in the record-level specification
MaxFields == 2

(* --------------------------- program constants ------------------------- *)
datasets ==
  << "dandelin/redcaps", "dandelin/cc12m", "dandelin/wit", "dandelin/vg",
     "dandelin/sbu", "dandelin/cocokt", "dandelin/cc3m" >>

\* dataset_name.split('/')[-1], prefixed with "samples_"
sample_dir(dataset_name) ==
  CASE dataset_name = "dandelin/redcaps" -> "samples_redcaps"
    [] dataset_name = "dandelin/cc12m"   -> "samples_cc12m"
    [] dataset_name = "dandelin/wit"     -> "samples_wit"
    [] dataset_name = "dandelin/vg"      -> "samples_vg"
    [] dataset_name = "dandelin/sbu"     -> "samples_sbu"
    [] dataset_name = "dandelin/cocokt"  -> "samples_cocokt"
    [] dataset_name = "dandelin/cc3m"    -> "samples_cc3m"

possible_image_fields == << "image", "img", "images", "image_data", "photo" >>
possible_text_fields ==
  << "text", "caption", "captions", "description", "descriptions", "title" >>
\* keys the fallback scan never takes as the image field
excluded_keys == { "text", "caption", "label" }

(* ------------------------------ values --------------------------------- *)
\* A field value: its Python type and, as a sequence of strings, what the
\* code reads of it: a dict's keys, a list's items, a str's text, the str()
\* of an int.  bytes carry nothing the code looks at before decoding.
BytesVal    == [type |-> "bytes", val |-> << >>]
DictBytes   == [type |-> "dict",  val |-> << "bytes" >>]
DictPath    == [type |-> "dict",  val |-> << "path" >>]
StrVal(s)   == [type |-> "str",   val |-> << s >>]
ListVal(xs) == [type |-> "list",  val |-> xs]
IntVal      == [type |-> "int",   val |-> << "7" >>]

\* A stream item: a row (a dict, as its (key, value) pairs in iteration
\* order), a split name (what iterating the default-split mapping yields),
\* or a pull that raises.
Row(fields)  == [kind |-> "row", fields |-> fields]
SplitName(s) == [kind |-> "str", fields |-> << << s, StrVal(s) >> >>]
FetchError   == [kind |-> "err", fields |-> << >>]

Range(s) == { s[p] : p \in DOMAIN s }
Min(a, b) == IF a < b THEN a ELSE b

(* --------------------------- field detection --------------------------- *)
NoField == "<None>"

\* `field in example`
HasField(example, field) == \E p \in DOMAIN example : example[p][1] = field
\* example[field]
GetField(example, field) ==
  example[CHOOSE p \in DOMAIN example : example[p][1] = field][2]

\* for field in fields: if field in example: ...; break
FirstPresent(fields, example) ==
  LET hits == { q \in DOMAIN fields : HasField(example, fields[q]) }
  IN  IF hits = {} THEN NoField
      ELSE fields[CHOOSE q \in hits : \A r \in hits : q <= r]

\* variant: the scan without its exclusion of text, caption, label
FallbackScanAny(example) ==
  LET hits == { p \in DOMAIN example : example[p][2].type \in {"bytes", "dict"} }
  IN  IF hits = {} THEN NoField
      ELSE example[CHOOSE p \in hits : \A r \in hits : p <= r][1]
\* for key, value in example.items(): first bytes/dict value under a key
\* that is not excluded
FallbackScan(example) ==
  LET hits == { p \in DOMAIN example :
                  /\ example[p][2].type \in {"bytes", "dict"}
                  /\ example[p][1] \notin excluded_keys }
  IN  IF hits = {} THEN NoField
      ELSE example[CHOOSE p \in hits : \A r \in hits : p <= r][1]

FindImageField(example) ==
  IF FirstPresent(possible_image_fields, example) # NoField
  THEN FirstPresent(possible_image_fields, example)
  ELSE FallbackScan(example)

\* the decoder input: "ok" when the value is a dict holding 'bytes' or is
\* bytes, "unsupported" otherwise
ImageFormat(image_data) ==
  IF image_data.type = "dict" /\ "bytes" \in Range(image_data.val) THEN "ok"
  ELSE IF image_data.type = "bytes" THEN "ok"
  ELSE "unsupported"

\* variant: the last candidate present wins (a loop without its break)
LastPresent(fields, example) ==
  LET hits == { q \in DOMAIN fields : HasField(example, fields[q]) }
  IN  IF hits = {} THEN NoField
      ELSE fields[CHOOSE q \in hits : \A r \in hits : q >= r]
FindTextFieldLast(example) == LastPresent(possible_text_fields, example)
FindTextField(example) == FirstPresent(possible_text_fields, example)

(* --------------------------- text normalisation ------------------------ *)
\* f"[{idx}] {item}"
caption_line(idx, item) == "[" \o ToString(idx) \o "] " \o item

\* '\n'.join(caption_lines)
RECURSIVE Join(_)
Join(lines) ==
  IF Len(lines) = 0 THEN ""
  ELSE IF Len(lines) = 1 THEN lines[1]
  ELSE lines[1] \o "\n" \o Join(Tail(lines))

\* variant: positions counted from 1
RenderListOneBased(text_data) ==
  Join([p \in 1..Len(text_data) |-> caption_line(p, text_data[p])])
\* caption_lines = [f"[{idx}] {item}" for idx, item in enumerate(text_data)]
RenderList(text_data) ==
  Join([p \in 1..Len(text_data) |-> caption_line(p - 1, text_data[p])])

\* str(text_data) of a value that is neither a list nor a str
PyStr(text_data) ==
  CASE text_data.type = "bytes" -> "b'...'"
    [] text_data.type = "dict"  -> "{'" \o text_data.val[1] \o "': ...}"
    [] OTHER                    -> text_data.val[1]

\* the caption computed for a record
MakeCaption(example) ==
  LET text_field == FindTextField(example)
      text_data  == GetField(example, text_field)
  IN  IF text_field # NoField
      THEN IF text_data.type = "list" THEN RenderList(text_data.val)
           ELSE IF text_data.type = "str" THEN text_data.val[1]
           ELSE PyStr(text_data)
      ELSE "No caption"

(* ------------------------------- state --------------------------------- *)
VARIABLES
  HF_API_KEY,     \* the credential; "" is the unset sentinel
  sample_size,    \* save_dataset_examples' argument
  total_samples,  \* save_dataset_examples' argument
  pc,             \* position of the thread of control
  idx,            \* 1-based position of the driver's loop in datasets
  total_success,  \* the driver's tally
  ret,            \* value save_dataset_examples returned last
  keyErrors,      \* 'API key not set' error entries logged
  tallies,        \* final-tally entries logged
  loginCalls,     \* calls of login
  attempted,      \* dataset names save_dataset_examples was called with
  positive,       \* calls of save_dataset_examples that returned a count > 0
  dirs,           \* directories created by os.makedirs
  raised,         \* where an exception left process_all_datasets, or "none"
  source,         \* what the opened streaming source yields, pull by pull
  pos,            \* dataset_iter: position of the next pull in source
  pulls,          \* calls of next(dataset_iter) in the current call
  warned,         \* 'No more samples available' warnings of the current call
  samples,        \* the buffer of collected records
  i,              \* loop variable of the collect loop, then of the save loop
  selected,       \* selected_samples, as positions of samples
  image,          \* whether the current record's image is decoded
  caption,        \* the current record's caption
  files,          \* files written into sample_dir by the current call
  outcomes,       \* per selected record handled so far, how its iteration ended
  saved_count

vars ==
  << HF_API_KEY, sample_size, total_samples, pc, idx, total_success, ret,
     keyErrors, tallies, loginCalls, attempted, positive, dirs, raised, source,
     pos, pulls, warned, samples, i, selected, image, caption, files, outcomes,
     saved_count >>

config   == << HF_API_KEY, sample_size, total_samples >>
driver   == << idx, total_success, keyErrors, tallies, loginCalls, attempted, dirs >>
stream   == << source, pos, pulls, warned, samples >>
persist  == << selected, image, caption, files, outcomes, saved_count >>

(* ------------------------- what the hub can serve ---------------------- *)
GoodRow    == Row(<< << "image", BytesVal >>, << "caption", StrVal("a cat") >> >>)
NoImageRow == Row(<< << "text", StrVal("a cat") >> >>)
RowPool    == { GoodRow, NoImageRow }

SeqsUpTo(S, n) == UNION { [1..m -> S] : m \in 0..n }

\* sources of a dataset opened on a split: rows, some pulls raising
Streams == SeqsUpTo(RowPool \cup {FetchError}, MaxStream)
\* iterating the mapping of splits the default load returns yields its keys
DefaultStreams == { << SplitName("validation") >>,
                    << SplitName("validation"), SplitName("test") >> }

\* variant: drawing with replacement (random.choices)
SelectionsRepeating(n, k) == [1..k -> 1..n]

\* random.sample(samples, k), as positions: k distinct positions, any order
Selections(n, k) ==
  { s \in [1..k -> 1..n] : \A a, b \in 1..k : a # b => s[a] # s[b] }

(* -------------------------------- Init --------------------------------- *)
Locals ==
  /\ source = << >> /\ pos = 1 /\ pulls = 0 /\ warned = 0 /\ samples = << >>
  /\ i = 0 /\ selected = << >> /\ image = "none" /\ caption = ""
  /\ files = {} /\ outcomes = << >> /\ saved_count = 0

Init ==
  /\ HF_API_KEY \in { "", "hf_token" }
  /\ sample_size \in 0..MaxSampleSize
  /\ total_samples \in 0..MaxTotalSamples
  /\ pc = "start" /\ idx = 1 /\ total_success = 0 /\ ret = 0
  /\ keyErrors = 0 /\ tallies = 0 /\ loginCalls = 0
  /\ attempted = << >> /\ positive = 0 /\ dirs = {} /\ raised = "none"
  /\ Locals

(* ------------------------- process_all_datasets ------------------------ *)
\* variant: the error is logged but the return is missing
CheckKeyNoReturn ==
  /\ pc = "start"
  /\ keyErrors' = IF HF_API_KEY = "" THEN keyErrors + 1 ELSE keyErrors
  /\ pc' = "login"
  /\ UNCHANGED << config, idx, total_success, ret, tallies, loginCalls,
                  attempted, positive, dirs, raised, stream, i, persist >>

\* if not HF_API_KEY: logger.error(...); return
CheckKey ==
  /\ pc = "start"
  /\ IF HF_API_KEY = ""
     THEN /\ keyErrors' = keyErrors + 1
          /\ pc' = "done"
     ELSE /\ pc' = "login"
          /\ UNCHANGED keyErrors
  /\ UNCHANGED << config, idx, total_success, ret, tallies, loginCalls,
                  attempted, positive, dirs, raised, stream, i, persist >>

\* login(token=HF_API_KEY): returns, or raises out of the driver
Login ==
  /\ pc = "login"
  /\ loginCalls' = loginCalls + 1
  /\ \/ pc' = "loop" /\ UNCHANGED raised
     \/ pc' = "crashed" /\ raised' = "login"
  /\ UNCHANGED << config, idx, total_success, ret, keyErrors, tallies,
                  attempted, positive, dirs, stream, i, persist >>

\* for dataset_name in datasets: saved_count = save_dataset_examples(name)
\* after the loop: the final tally
NextDataset ==
  /\ pc = "loop"
  /\ IF idx <= Len(datasets)
     THEN /\ attempted' = Append(attempted, datasets[idx])
          /\ pc' = "makedirs"
          /\ source' = << >> /\ pos' = 1 /\ pulls' = 0 /\ warned' = 0
          /\ samples' = << >> /\ i' = 0 /\ selected' = << >>
          /\ image' = "none" /\ caption' = "" /\ files' = {}
          /\ outcomes' = << >> /\ saved_count' = 0
          /\ UNCHANGED tallies
     ELSE /\ tallies' = tallies + 1
          /\ pc' = "done"
          /\ UNCHANGED << attempted, stream, i, persist >>
  /\ UNCHANGED << config, idx, total_success, ret, keyErrors, loginCalls,
                  positive, dirs, raised >>

\* if saved_count > 0: total_success += 1
Tally(count, total) == IF count > 0 THEN total + 1 ELSE total

AfterSave ==
  /\ pc = "after"
  /\ total_success' = Tally(ret, total_success)
  /\ idx' = idx + 1
  /\ pc' = "loop"
  /\ UNCHANGED << config, ret, keyErrors, tallies, loginCalls, attempted,
                  positive, dirs, raised, stream, i, persist >>

(* ------------------------- save_dataset_examples ----------------------- *)
\* return count
Return(count) ==
  /\ pc' = "after"
  /\ ret' = count
  /\ positive' = IF count > 0 THEN positive + 1 ELSE positive

\* an exception no handler of save_dataset_examples catches
Raise(where) ==
  /\ pc' = "crashed"
  /\ raised' = where

\* os.makedirs(sample_dir, exist_ok=True)
MakeDirs ==
  /\ pc = "makedirs"
  /\ \/ /\ dirs' = dirs \cup { sample_dir(datasets[idx]) }
        /\ pc' = "load_train"
        /\ UNCHANGED raised
     \/ /\ Raise("makedirs")
        /\ UNCHANGED dirs
  /\ UNCHANGED << config, idx, total_success, ret, keyErrors, tallies,
                  loginCalls, attempted, positive, stream, i, persist >>

\* load_dataset(dataset_name, split="train", streaming=True)
LoadTrain ==
  /\ pc = "load_train"
  /\ \/ /\ source' \in Streams
        /\ pc' = "iter"
        /\ UNCHANGED << ret, positive >>
     \/ /\ pc' = "load_default"           \* ValueError: no 'train' split
        /\ UNCHANGED << source, ret, positive >>
     \/ /\ Return(0)                      \* any other exception
        /\ UNCHANGED source
  /\ UNCHANGED << config, driver, total_success, raised, pos, pulls, warned,
                  samples, i, persist >>

\* load_dataset(dataset_name, streaming=True)
LoadDefault ==
  /\ pc = "load_default"
  /\ \/ /\ source' \in DefaultStreams
        /\ pc' = "iter"
        /\ UNCHANGED << ret, positive >>
     \/ /\ Return(0)
        /\ UNCHANGED source
  /\ UNCHANGED << config, driver, total_success, raised, pos, pulls, warned,
                  samples, i, persist >>

\* dataset_iter = iter(dataset)
Iter ==
  /\ pc = "iter"
  /\ \/ pc' = "collect" /\ UNCHANGED raised
     \/ Raise("iter")
  /\ UNCHANGED << config, driver, total_success, ret, positive, stream, i,
                  persist >>

\* variant: `continue` in place of `break`
OnStopIterationContinue ==
  /\ warned' = warned + 1
  /\ i' = i + 1
  /\ UNCHANGED << pos, samples, pc >>

\* except StopIteration: logger.warning(...); break
OnStopIteration ==
  /\ warned' = warned + 1
  /\ pc' = "select"
  /\ UNCHANGED << pos, samples, i >>

\* one turn of `for i in range(total_samples)`, or the loop's end
Collect ==
  /\ pc = "collect"
  /\ IF i < total_samples
     THEN /\ pulls' = pulls + 1
          /\ IF pos > Len(source)
             THEN OnStopIteration
             ELSE /\ samples' = IF source[pos].kind = "err"
                                THEN samples
                                ELSE Append(samples, source[pos])
                  /\ pos' = pos + 1
                  /\ i' = i + 1
                  /\ UNCHANGED << warned, pc >>
     ELSE /\ pc' = "select"
          /\ UNCHANGED << pos, pulls, warned, samples, i >>
  /\ UNCHANGED << config, driver, total_success, ret, positive, raised,
                  source, persist >>

\* sample_size = min(sample_size, len(samples))
SampleCount(size, n) == Min(size, n)

\* if len(samples) == 0: return 0; selected_samples = random.sample(...)
Select ==
  /\ pc = "select"
  /\ IF Len(samples) = 0
     THEN /\ Return(0)
          /\ UNCHANGED << selected, i >>
     ELSE /\ selected' \in
               Selections(Len(samples), SampleCount(sample_size, Len(samples)))
          /\ i' = 0
          /\ pc' = "persist"
          /\ UNCHANGED << ret, positive >>
  /\ UNCHANGED << config, driver, total_success, raised, source, pos, pulls,
                  warned, samples, image, caption, files, outcomes,
                  saved_count >>

\* the record of the current turn of `for i, example in enumerate(...)`
example == samples[selected[i + 1]]

\* variant: files numbered by the count saved so far
FileNumberBySaved(index, saved) == saved + 1

\* image_{i+1}.jpg, caption_{i+1}.txt
FileNumber(index, saved) == index + 1

File(kind, text, complete) ==
  [kind |-> kind, n |-> FileNumber(i, saved_count), from |-> selected[i + 1],
   text |-> text, complete |-> complete]

\* `continue`, from a skip or from `except Exception`
Continue(outcome) ==
  /\ outcomes' = Append(outcomes, outcome)
  /\ i' = i + 1
  /\ image' = "none"
  /\ caption' = ""
  /\ pc' = "persist"

\* lines 84-145: find the image field, open the image, build the caption
DetectFields ==
  /\ pc = "persist"
  /\ i < Len(selected)
  /\ IF example.kind # "row"
     THEN Continue("error")          \* a str has no items()
     ELSE LET image_field == FindImageField(example.fields)
          IN  IF image_field = NoField
              THEN Continue("no_image_field")
              ELSE IF ImageFormat(GetField(example.fields, image_field)) # "ok"
              THEN Continue("unsupported")
              ELSE \/ Continue("error")   \* Image.open raises
                   \/ /\ image' = "decoded"
                      /\ caption' = MakeCaption(example.fields)
                      /\ pc' = "save_image"
                      /\ UNCHANGED << outcomes, i >>
  /\ UNCHANGED << config, driver, total_success, ret, positive, raised,
                  stream, selected, files, saved_count >>

\* image.save(image_path)
SaveImage ==
  /\ pc = "save_image"
  /\ \/ /\ files' = files \cup { File("image", "", TRUE) }
        /\ pc' = "save_caption"
        /\ UNCHANGED << outcomes, i, image, caption >>
     \/ /\ files' \in { files, files \cup { File("image", "", FALSE) } }
        /\ Continue("error")
  /\ UNCHANGED << config, driver, total_success, ret, positive, raised,
                  stream, selected, saved_count >>

\* variant: saved_count += 1 placed before the caption is written
SaveCaptionCountFirst ==
  /\ pc = "save_caption"
  /\ saved_count' = saved_count + 1
  /\ \/ /\ files' = files \cup { File("caption", caption, TRUE) }
        /\ Continue("saved")
     \/ /\ files' \in { files, files \cup { File("caption", "", FALSE) } }
        /\ Continue("error")
  /\ UNCHANGED << config, driver, total_success, ret, positive, raised,
                  stream, selected >>

\* with open(caption_path, 'w') as f: f.write(caption); saved_count += 1
SaveCaption ==
  /\ pc = "save_caption"
  /\ \/ /\ files' = files \cup { File("caption", caption, TRUE) }
        /\ saved_count' = saved_count + 1
        /\ Continue("saved")
     \/ /\ files' \in { files, files \cup { File("caption", "", FALSE) } }
        /\ Continue("error")
        /\ UNCHANGED saved_count
  /\ UNCHANGED << config, driver, total_success, ret, positive, raised,
                  stream, selected >>

\* after the loop: return saved_count
EndPersist ==
  /\ pc = "persist"
  /\ i = Len(selected)
  /\ Return(saved_count)
  /\ UNCHANGED << config, driver, total_success, raised, stream, i, persist >>

(* ---------------------------- specifications --------------------------- *)
Next ==
  \/ CheckKey \/ Login \/ NextDataset \/ AfterSave
  \/ MakeDirs \/ LoadTrain \/ LoadDefault \/ Iter
  \/ Collect \/ Select
  \/ DetectFields \/ SaveImage \/ SaveCaption \/ EndPersist

Spec == Init /\ [][Next]_vars

\* The save loop on one record of any shape: the state save_dataset_examples
\* is in when the first dataset served exactly that record and it was
\* selected.
FieldKeys ==
  Range(possible_image_fields) \cup Range(possible_text_fields)
    \cup { "label", "jpg" }
FieldValues ==
  { BytesVal, DictBytes, DictPath, StrVal("a cat"), ListVal(<< "a", "b" >>),
    ListVal(<< "b" >>), IntVal }
RowsUpTo(n) ==
  { Row(f) : f \in { g \in SeqsUpTo(FieldKeys \X FieldValues, n) :
                       \A a, b \in DOMAIN g : a # b => g[a][1] # g[b][1] } }

InitPersist ==
  /\ HF_API_KEY = "hf_token"
  /\ sample_size = 1
  /\ total_samples = 1
  /\ pc = "persist" /\ idx = 1 /\ total_success = 0 /\ ret = 0
  /\ keyErrors = 0 /\ tallies = 0 /\ loginCalls = 1
  /\ attempted = << datasets[1] >> /\ positive = 0
  /\ dirs = { sample_dir(datasets[1]) } /\ raised = "none"
  /\ source \in { << r >> : r \in RowsUpTo(MaxFields) }
  /\ pos = 2 /\ pulls = 1 /\ warned = 0 /\ samples = source
  /\ i = 0 /\ selected = << 1 >> /\ image = "none" /\ caption = ""
  /\ files = {} /\ outcomes = << >> /\ saved_count = 0

NextPersist == DetectFields \/ SaveImage \/ SaveCaption \/ EndPersist

SpecPersist == InitPersist /\ [][NextPersist]_vars

(* ------------------------------ properties ----------------------------- *)
SavePhase == { "persist", "save_image", "save_caption" }
CompleteFiles(kind) == { f \in files : f.kind = kind /\ f.complete }
\* numbers n for which image_n.jpg and caption_n.txt were both written in full
Pairs ==
  { n \in { f.n : f \in files } :
      /\ \E f \in CompleteFiles("image") : f.n = n
      /\ \E f \in CompleteFiles("caption") : f.n = n }

\* C1: once the selection is made it holds exactly min(sample_size,
\* len(samples)) positions, all inside the buffer and pairwise distinct, and
\* never more than sample_size records are persisted.
C1_SelectionSize ==
  pc \in SavePhase =>
    /\ Len(samples) > 0
    /\ Len(selected) = IF sample_size < Len(samples) THEN sample_size
                       ELSE Len(samples)
    /\ \A a \in DOMAIN selected : selected[a] \in 1..Len(samples)
    /\ \A a, b \in DOMAIN selected : a # b => selected[a] # selected[b]
    /\ saved_count <= sample_size
    /\ Cardinality({ f.n : f \in files }) <= sample_size

C1_Witness ==
  /\ pc = "persist" /\ i = Len(selected)
  /\ Len(samples) = 2 /\ sample_size = 1 /\ saved_count = 1

NoFetchError(src) == \A p \in DOMAIN src : src[p].kind # "err"

C3_EmptyCredential ==
  HF_API_KEY = "" =>
    /\ loginCalls = 0
    /\ attempted = << >>
    /\ dirs = {}
    /\ tallies = 0
    /\ pc \in { "start", "done" }
    /\ keyErrors = IF pc = "done" THEN 1 ELSE 0

C3_Witness == HF_API_KEY = "" /\ pc = "done" /\ keyErrors = 1

\* a row with none of the candidate image fields and no bytes or dict value
\* under a key other than text, caption, label
LacksImage(row) ==
  /\ row.kind = "row"
  /\ \A p \in DOMAIN row.fields :
       /\ row.fields[p][1] \notin { "image", "img", "images", "image_data", "photo" }
       /\ row.fields[p][2].type \in { "bytes", "dict" }
            => row.fields[p][1] \in { "text", "caption", "label" }

\* C4: a selected record that lacks an image is never saved: no file of its
\* number exists, its turn never reaches the writes, it ends as 'cannot find
\* image field', and the saved counter does not count it.
C4_NoImageNoFiles ==
  /\ \A j \in DOMAIN selected :
       LacksImage(samples[selected[j]]) =>
         /\ \A f \in files : f.n # j
         /\ ~ (i = j - 1 /\ pc \in { "save_image", "save_caption" })
         /\ j <= Len(outcomes) => outcomes[j] = "no_image_field"
  /\ saved_count <=
       Cardinality({ j \in DOMAIN outcomes : ~ LacksImage(samples[selected[j]]) })

C4_Witness ==
  /\ pc = "after" /\ outcomes = << "no_image_field" >> /\ ret = 0
  /\ samples[1].fields = << << "caption", DictBytes >>, << "label", BytesVal >> >>

\* the text a value is written as
TextOf(value) ==
  IF value.type = "list" THEN RenderList(value.val)
  ELSE IF value.type = "str" THEN value.val[1]
  ELSE PyStr(value)

\* C5: every caption written in full is that of the earliest of text,
\* caption, captions, description, descriptions, title the record holds, and
\* is "No caption" when it holds none.
C5_FirstTextField ==
  \A f \in CompleteFiles("caption") :
    LET row == samples[f.from].fields
        order == << "text", "caption", "captions", "description",
                    "descriptions", "title" >>
    IN  /\ \A q \in DOMAIN order :
             ( /\ HasField(row, order[q])
               /\ \A r \in 1..(q - 1) : ~ HasField(row, order[r]) )
             => f.text = TextOf(GetField(row, order[q]))
        /\ (\A q \in DOMAIN order : ~ HasField(row, order[q]))
             => f.text = "No caption"

C5_Witness ==
  /\ pc = "after" /\ ret = 1
  /\ samples[1].fields = << << "title", StrVal("a cat") >>,
                            << "captions", DictBytes >> >>
  /\ \E f \in CompleteFiles("caption") : f.text = "{'bytes': ...}"

\* the text field the code reads, stated from the candidate order
ChosenText(row) ==
  LET order == << "text", "caption", "captions", "description",
                  "descriptions", "title" >>
      q == CHOOSE q \in DOMAIN order :
             /\ HasField(row, order[q])
             /\ \A r \in 1..(q - 1) : ~ HasField(row, order[r])
  IN  GetField(row, order[q])
HasText(row) ==
  \E k \in { "text", "caption", "captions", "description", "descriptions",
             "title" } : HasField(row, k)

\* C6: a list value ["a", "b"] is written as "[0] a\n[1] b", a list ["b"]
\* as "[0] b" (one line per element, 0-based, no trailing newline), and a
\* string value is written unchanged.
C6_ListRendering ==
  \A f \in CompleteFiles("caption") :
    LET row == samples[f.from].fields
    IN  HasText(row) =>
          /\ ChosenText(row) = ListVal(<< "a", "b" >>) => f.text = "[0] a\n[1] b"
          /\ ChosenText(row) = ListVal(<< "b" >>) => f.text = "[0] b"
          /\ ChosenText(row) = StrVal("a cat") => f.text = "a cat"

C6_Witness ==
  /\ pc = "after" /\ ret = 1
  /\ samples[1].fields = << << "image", BytesVal >>,
                            << "caption", ListVal(<< "a", "b" >>) >> >>
  /\ \E f \in CompleteFiles("caption") : f.text = "[0] a\n[1] b"

\* C7: no exception leaves save_dataset_examples: neither os.makedirs nor
\* iter(dataset) takes the driver down.
C7_NoExceptionEscapes == raised \notin { "makedirs", "iter" }

\* C8: once logged in, a run that has ended has called
\* save_dataset_examples on every dataset of the list once and in order, has
\* logged the final tally, and its tally counts the calls that returned more
\* than 0.
C8_AllDatasetsTallied ==
  (HF_API_KEY # "" /\ raised # "login" /\ pc \in { "done", "crashed" }) =>
    /\ attempted = datasets
    /\ tallies = 1
    /\ total_success = positive

\* C8, the part that survives: a run in which nothing escaped ends with
\* every dataset attempted in list order, one tally entry, and a tally equal
\* to the number of calls that returned more than 0.
C8_WhenNothingEscapes ==
  (HF_API_KEY # "" /\ pc = "done") =>
    /\ raised = "none"
    /\ attempted = datasets
    /\ tallies = 1
    /\ total_success = positive

\* C9: every selected record gets its turn whatever happened to the ones
\* before it, and whatever is written for the record at selection position j
\* (0-based) is written under the number j + 1.
C9_SkipKeepsNumbering ==
  /\ pc \in SavePhase =>
       /\ Len(outcomes) = i
       /\ i <= Len(selected)
  /\ (pc = "after" /\ Len(samples) > 0) => Len(outcomes) = Len(selected)
  /\ \A f \in files : f.n \in DOMAIN selected /\ f.from = selected[f.n]
  /\ \A j \in DOMAIN outcomes :
       outcomes[j] = "saved" =>
         /\ \E f \in CompleteFiles("image") : f.n = j
         /\ \E f \in CompleteFiles("caption") : f.n = j

C9_Witness ==
  /\ pc = "after" /\ Len(selected) = 2
  /\ outcomes = << "no_image_field", "saved" >>
  /\ { f.n : f \in files } = { 2 }

\* C10: a caption file is only ever written after the image of the same
\* number was written in full; saved_count is the number of records whose
\* image and caption were both written in full, is at most the number of
\* selected records, and is what the call returns; a file once written stays.
C10_State ==
  /\ \A f \in files : f.kind = "caption" =>
       \E g \in CompleteFiles("image") : g.n = f.n
  /\ saved_count = Cardinality(Pairs)
  /\ saved_count <= Len(selected)
  /\ pc = "after" => ret = saved_count
C10_NotTransactional ==
  /\ [] C10_State
  /\ [][pc' # "makedirs" => files \subseteq files']_vars

C10_Witness ==
  /\ pc = "after" /\ Len(selected) = 1 /\ ret = 0
  /\ outcomes = << "error" >>
  /\ files = { [kind |-> "image", n |-> 1, from |-> selected[1], text |-> "",
                complete |-> TRUE] }

====
